---- MODULE Spec2Model ----
(***************************************************************************)
(* Model of the Spotify "wrapped" data collection web app (src/app.py):    *)
(* the Google Drive helpers, the collection run save_all_user_data with    *)
(* its paginated get_top_tracks, and the Flask routes login, callback and  *)
(* summary.                                                                *)
(*                                                                         *)
(* Four specifications share the definitions:                              *)
(*   Spec        the routes of one browser session, the collection run     *)
(*               included (callback calls save_all_user_data);             *)
(*   SpecRun     one collection run, over all small provider holdings;     *)
(*   SpecTracks  get_top_tracks alone, with the real limits 100 and 50;    *)
(*   SpecFolder  get_or_create_user_folder called by concurrent runs.      *)
(***************************************************************************)
EXTENDS Integers, Sequences, FiniteSets

\* ------------------------------------------------------------- constants
\* get_top_tracks(tr, 100)
TotalLimit == 100
\* limit=min(50, total_limit - fetched)
PageLimit == 50
\* current_user_top_artists(limit=20, ...)
ArtistLimit == 20
\* files().list(pageSize=5)
ListPageSize == 5

\* --------------------------------------------------------------- bounds
\* artists the provider holds per window, in Spec and SpecRun
MaxArtists == 1
\* tracks the provider holds per window, in Spec and SpecRun
MaxTracks == 1
\* artists and tracks the provider holds for short_term, in Spec
MaxSessionItems == 1
\* tracks the provider holds for the window, in SpecTracks
MaxTrackHoldings == 103
\* by how many items a page may fall short of what the provider could serve
MaxShort == 2
\* concurrent callers of get_or_create_user_folder in SpecFolder
NumCalls == 3
\* folders already in the store when SpecFolder starts
MaxPreFolders == 2

time_ranges == <<"short_term", "medium_term", "long_term">>
Windows == 1..Len(time_ranges)
Kinds == {"artists", "tracks"}
Slots == Windows \X Kinds
Calls == 1..NumCalls
\* the folder call made by the collection run of the modelled session
RunCall == 1
\* labels typed into the login form
Labels == {"alice"}
\* labels of the concurrent runs of SpecFolder
FolderLabels == {"alice", "bob"}
Absent == "<absent>"
\* the empty handle "" of the Drive helpers; folder ids are 1, 2, ...
EmptyHandle == 0

VARIABLES
    \* the provider (Spotify): how many top artists / tracks it holds per window
    topArtists, topTracks,
    \* the remote store (Google Drive) and its configuration
    drive_service,      \* TRUE: client built; FALSE: None
    FOLDER_ID,          \* "" when GOOGLE_DRIVE_FOLDER_ID is unset
    driveFolders,       \* sequence of [name, parent]; a folder's id is its index
    listNewestFirst,    \* the store's (stable) order of list results
    \* get_or_create_user_folder, per caller
    fpc, fname, fresult, fcreated, listedAt, driveCalls,
    \* the Flask session and the last request
    session, sessionAtEntry, lastRequest, response, summaryCalls, exchanged,
    \* save_all_user_data
    pc, error, providerFailed, widx, user_folder_id,
    results, fetched, honest,
    files, saved, fetchedLen, uploads

providerVars == <<topArtists, topTracks>>
driveCfg == <<drive_service, FOLDER_ID, listNewestFirst>>
folderVars == <<fpc, fname, fresult, fcreated, listedAt>>
sessVars == <<session, sessionAtEntry, lastRequest, response, summaryCalls, exchanged>>
loopVars == <<results, fetched, honest>>
logVars == <<files, saved, fetchedLen, uploads>>
runVars == <<pc, error, providerFailed, widx, user_folder_id>>
vars == <<providerVars, driveCfg, driveFolders, folderVars, driveCalls, sessVars,
          runVars, loopVars, logVars>>

\* ------------------------------------------------------------ helpers
Min(a, b) == IF a <= b THEN a ELSE b

\* The id of the provider's item at 1-based position p of window w's ranking.
ItemId(kind, w, p) == (IF kind = "artists" THEN 5000 ELSE 0) + w * 1000 + p

\* The items the provider holds at positions offset+1 .. offset+k of a ranking.
Page(kind, w, offset, k) == [i \in 1..k |-> ItemId(kind, w, offset + i)]

\* How many items the provider can serve for (offset, limit) out of n.
Available(n, offset, limit) == IF offset >= n THEN 0 ELSE Min(limit, n - offset)

\* The page sizes the provider may answer with: the full page, or a shorter one.
PageSizes(avail) == {k \in 0..avail : k = 0 \/ avail - k <= MaxShort}

\* [{"Rank": i + 1, ..., "ID": t.get("id")} for i, t in enumerate(items)]
\* (i below is 1-based, enumerate's index is i - 1)
BuildRows(items) == [i \in 1..Len(items) |-> [Rank |-> (i - 1) + 1, ID |-> items[i]]]

\* ------------------------------------------------- Google Drive helpers
\* query: name='{custom_name}' and mimeType=folder [and '{FOLDER_ID}' in parents]
MatchesQuery(f, name) ==
    /\ f.name = name
    /\ (FOLDER_ID # "" => f.parent = FOLDER_ID)

MatchingIds(name) == {i \in 1..Len(driveFolders) : MatchesQuery(driveFolders[i], name)}

SetMin(S) == CHOOSE x \in S : \A y \in S : x <= y
SetMax(S) == CHOOSE x \in S : \A y \in S : x >= y

RECURSIVE Ordered(_, _)
\* The ids of S as the store lists them: oldest first or newest first.
Ordered(S, newestFirst) ==
    IF S = {} THEN <<>>
    ELSE LET x == IF newestFirst THEN SetMax(S) ELSE SetMin(S)
         IN <<x>> \o Ordered(S \ {x}, newestFirst)

\* results.get("files", []) of files().list(q=query, pageSize=5)
ListFolders(name) ==
    LET all == Ordered(MatchingIds(name), listNewestFirst)
    IN SubSeq(all, 1, Min(ListPageSize, Len(all)))

\* metadata of the folder files().create makes
NewFolder(name) == [name |-> name, parent |-> IF FOLDER_ID # "" THEN FOLDER_ID ELSE "root"]

\* get_or_create_user_folder(custom_name), up to its first remote call:
\* `if not drive_service: return ""`
get_or_create_user_folder(c, name) ==
    /\ fname' = [fname EXCEPT ![c] = name]
    /\ fcreated' = [fcreated EXCEPT ![c] = FALSE]
    /\ listedAt' = [listedAt EXCEPT ![c] = 0]
    /\ driveCalls' = [driveCalls EXCEPT ![c] = 0]
    /\ IF drive_service
       THEN /\ fpc' = [fpc EXCEPT ![c] = "list"]
            /\ fresult' = [fresult EXCEPT ![c] = EmptyHandle]
       ELSE /\ fpc' = [fpc EXCEPT ![c] = "returned"]
            /\ fresult' = [fresult EXCEPT ![c] = EmptyHandle]

\* A lookup whose result is not looked at: the caller goes on to create.
AfterListIgnoringResult(c, folders) ==
    /\ fresult' = fresult
    /\ fpc' = [fpc EXCEPT ![c] = "create"]

\* What the caller does once the list call has answered with `folders`.
AfterList(c, folders) ==
    IF folders # <<>>
    THEN /\ fresult' = [fresult EXCEPT ![c] = folders[1]]
         /\ fpc' = [fpc EXCEPT ![c] = "returned"]
    ELSE /\ fresult' = fresult
         /\ fpc' = [fpc EXCEPT ![c] = "create"]

\* files().list(...).execute() answers
FolderList(c) ==
    /\ fpc[c] = "list"
    /\ driveCalls' = [driveCalls EXCEPT ![c] = @ + 1]
    /\ listedAt' = [listedAt EXCEPT ![c] = Len(driveFolders)]
    /\ AfterList(c, ListFolders(fname[c]))
    /\ UNCHANGED <<fname, fcreated, driveFolders>>
    /\ UNCHANGED <<providerVars, driveCfg, sessVars, runVars, loopVars, logVars>>

\* files().list(...).execute() raises: nothing in the function catches it
FolderListFails(c) ==
    /\ fpc[c] = "list"
    /\ driveCalls' = [driveCalls EXCEPT ![c] = @ + 1]
    /\ fpc' = [fpc EXCEPT ![c] = "raised"]
    /\ UNCHANGED <<fname, fresult, fcreated, listedAt, driveFolders>>
    /\ UNCHANGED <<providerVars, driveCfg, sessVars, runVars, loopVars, logVars>>

\* A create that is held back when a folder with the name is there by now.
StoreAfterGuardedCreate(c) ==
    IF MatchingIds(fname[c]) # {} THEN driveFolders
    ELSE Append(driveFolders, NewFolder(fname[c]))

\* The store after the create call of caller c.
StoreAfterCreate(c) == Append(driveFolders, NewFolder(fname[c]))

\* files().create(body=metadata).execute() answers
FolderCreate(c) ==
    /\ fpc[c] = "create"
    /\ driveCalls' = [driveCalls EXCEPT ![c] = @ + 1]
    /\ driveFolders' = StoreAfterCreate(c)
    /\ fresult' = [fresult EXCEPT ![c] = Len(driveFolders')]
    /\ fcreated' = [fcreated EXCEPT ![c] = TRUE]
    /\ fpc' = [fpc EXCEPT ![c] = "returned"]
    /\ UNCHANGED <<fname, listedAt>>
    /\ UNCHANGED <<providerVars, driveCfg, sessVars, runVars, loopVars, logVars>>

\* files().create(...).execute() raises
FolderCreateFails(c) ==
    /\ fpc[c] = "create"
    /\ driveCalls' = [driveCalls EXCEPT ![c] = @ + 1]
    /\ fpc' = [fpc EXCEPT ![c] = "raised"]
    /\ UNCHANGED <<fname, fresult, fcreated, listedAt, driveFolders>>
    /\ UNCHANGED <<providerVars, driveCfg, sessVars, runVars, loopVars, logVars>>

\* upload_to_drive without its `if not drive_service` line.
upload_to_drive_unchecked(parent_id, callOk) ==
    IF parent_id = EmptyHandle THEN "raised"
    ELSE IF callOk THEN "ok"
    ELSE "raised"

\* upload_to_drive(filepath, filename, parent_id): what the call comes to.
\* callOk is the answer of files().create(..., media_body=media).execute().
upload_to_drive(parent_id, callOk) ==
    IF ~drive_service THEN "noop"               \* return ""
    ELSE IF parent_id = EmptyHandle THEN "raised"   \* RuntimeError
    ELSE IF callOk THEN "ok"
    ELSE "raised"

\* Whether upload_to_drive reaches its remote call.
UploadCallIssued(parent_id) == drive_service /\ parent_id # EmptyHandle

\* save_and_upload without its try/except.
UploadErrorPropagates(outcome) == outcome = "raised"

\* save_and_upload's try/except: does the exception of upload_to_drive escape?
UploadErrorEscapes(outcome) == FALSE

\* save_and_upload(df, filepath, filename, parent_id)
save_and_upload(slot, rows, parent_id, callOk) ==
    LET outcome == upload_to_drive(parent_id, callOk) IN
    /\ files' = [files EXCEPT ![slot] = [exists |-> TRUE, rows |-> rows]]
    /\ saved' = saved \cup {slot}
    /\ uploads' = [uploads EXCEPT ![slot] = IF outcome = "raised" THEN "failed" ELSE outcome]
    /\ driveCalls' = [driveCalls EXCEPT ![RunCall] =
                        IF UploadCallIssued(parent_id) THEN @ + 1 ELSE @]

\* The export of a slot without the emptiness test.
ExportAlways(items) == TRUE

\* `if artists:` / `if tracks:`
ShouldExport(items) == items # <<>>

\* The body of one slot once its items are retrieved (lines 170-182, 186-203).
ExportSlot(slot, items, callOk) ==
    /\ fetchedLen' = [fetchedLen EXCEPT ![slot] = Len(items)]
    /\ IF ShouldExport(items)
       THEN save_and_upload(slot, BuildRows(items), user_folder_id, callOk)
       ELSE UNCHANGED <<files, saved, uploads, driveCalls>>

\* Whether the export of `items` lets an exception out of save_and_upload.
ExportRaises(items, callOk) ==
    /\ ShouldExport(items)
    /\ upload_to_drive(user_folder_id, callOk) = "raised"
    /\ UploadErrorEscapes("raised")

\* The answer callOk matters only when the upload call is issued.
CallOkMeaningful(items, callOk) ==
    callOk \/ (ShouldExport(items) /\ UploadCallIssued(user_folder_id))

\* An exception leaves save_all_user_data and callback: the request fails.
\* The session cookie of the failed request is either written or not.
Abort(kind) ==
    /\ pc' = "aborted"
    /\ error' = kind
    /\ response' = "error"
    /\ session' \in {session, sessionAtEntry}
    /\ UNCHANGED <<sessionAtEntry, lastRequest, summaryCalls, exchanged>>

\* save_all_user_data returns and callback redirects to summary.
Finish ==
    /\ pc' = "done"
    /\ response' = "redirect_summary"
    /\ UNCHANGED <<error, session, sessionAtEntry, lastRequest, summaryCalls, exchanged>>

\* A provider error that is swallowed: the run stays where it is.
OnProviderErrorIgnored == UNCHANGED <<pc, error, sessVars>>

\* What save_all_user_data does when a provider request raises: nothing
\* catches it.
OnProviderError == Abort("provider")

\* line 160: user_folder_id = get_or_create_user_folder(custom_name) returned
FolderReturn ==
    /\ pc = "folder"
    /\ fpc[RunCall] = "returned"
    /\ user_folder_id' = fresult[RunCall]
    /\ pc' = "artists"
    /\ widx' = 1
    /\ UNCHANGED <<providerVars, driveCfg, driveFolders, folderVars, driveCalls, sessVars,
                   error, providerFailed, loopVars, logVars>>

\* What save_all_user_data does when get_or_create_user_folder raises:
\* line 160 has no try/except.
OnFolderError == Abort("drive_folder")

FolderRaise ==
    /\ pc = "folder"
    /\ fpc[RunCall] = "raised"
    /\ OnFolderError
    /\ UNCHANGED <<providerVars, driveCfg, driveFolders, folderVars, driveCalls,
                   providerFailed, widx, user_folder_id, loopVars, logVars>>

\* sp.current_user_top_artists(limit=20, time_range=tr) raises
ArtistsRequestFails ==
    /\ pc = "artists"
    /\ providerFailed' = TRUE
    /\ OnProviderError
    /\ UNCHANGED <<providerVars, driveCfg, driveFolders, folderVars, driveCalls,
                   widx, user_folder_id, loopVars, logVars>>

\* sp.current_user_top_artists(...).get("items", []) and the artists slot
ArtistsRequest(callOk) ==
    /\ pc = "artists"
    /\ LET artists == Page("artists", widx, 0, Available(topArtists[widx], 0, ArtistLimit))
       IN /\ CallOkMeaningful(artists, callOk)
          /\ ExportSlot(<<widx, "artists">>, artists, callOk)
          /\ IF ExportRaises(artists, callOk)
             THEN /\ Abort("upload")
                  /\ UNCHANGED loopVars
             ELSE /\ pc' = "tracks"
                  \* get_top_tracks: results, fetched = [], 0
                  /\ results' = <<>>
                  /\ fetched' = 0
                  /\ honest' = TRUE
                  /\ UNCHANGED <<error, sessVars>>
    /\ UNCHANGED <<providerVars, driveCfg, driveFolders, folderVars,
                   providerFailed, widx, user_folder_id>>

\* A page size that ignores what is already fetched.
RequestLimitFlat(nFetched) == PageLimit

\* get_top_tracks: limit=min(50, total_limit - fetched)
RequestLimit(nFetched) == Min(PageLimit, TotalLimit - nFetched)

\* get_top_tracks: offset=fetched
RequestOffset(nFetched) == nFetched

\* get_top_tracks: fetched += len(batch)
NextFetched(nFetched, batch) == nFetched + Len(batch)

\* get_top_tracks: one request of the loop raises
TracksRequestFails ==
    /\ pc = "tracks"
    /\ fetched < TotalLimit
    /\ providerFailed' = TRUE
    /\ OnProviderError
    /\ UNCHANGED <<providerVars, driveCfg, driveFolders, folderVars, driveCalls,
                   widx, user_folder_id, loopVars, logVars>>

\* get_top_tracks: a non-empty page that leaves the loop running
TracksPageMore(k) ==
    /\ pc = "tracks"
    /\ fetched < TotalLimit
    /\ LET avail == Available(topTracks[widx], RequestOffset(fetched), RequestLimit(fetched))
           batch == Page("tracks", widx, RequestOffset(fetched), k)
       IN /\ k \in PageSizes(avail)
          /\ batch # <<>>
          /\ NextFetched(fetched, batch) < TotalLimit
          /\ results' = results \o batch
          /\ fetched' = NextFetched(fetched, batch)
          /\ honest' = (honest /\ k = avail)
    /\ UNCHANGED <<providerVars, driveCfg, driveFolders, folderVars, driveCalls, sessVars,
                   runVars, logVars>>

\* get_top_tracks: the page that ends the loop (empty, or total_limit reached),
\* then the tracks slot and the step to the next window
TracksPageLast(k, callOk) ==
    /\ pc = "tracks"
    /\ fetched < TotalLimit
    /\ LET avail == Available(topTracks[widx], RequestOffset(fetched), RequestLimit(fetched))
           batch == Page("tracks", widx, RequestOffset(fetched), k)
           tracks == IF batch = <<>> THEN results ELSE results \o batch
       IN /\ k \in PageSizes(avail)
          /\ (batch = <<>> \/ NextFetched(fetched, batch) >= TotalLimit)
          /\ results' = tracks
          /\ fetched' = IF batch = <<>> THEN fetched ELSE NextFetched(fetched, batch)
          /\ honest' = (honest /\ k = avail)
          /\ CallOkMeaningful(tracks, callOk)
          /\ ExportSlot(<<widx, "tracks">>, tracks, callOk)
          /\ IF ExportRaises(tracks, callOk)
             THEN /\ Abort("upload")
                  /\ widx' = widx
             ELSE IF widx < Len(time_ranges)
             THEN /\ pc' = "artists"
                  /\ widx' = widx + 1
                  /\ UNCHANGED <<error, sessVars>>
             ELSE /\ Finish
                  /\ widx' = widx
    /\ UNCHANGED <<providerVars, driveCfg, driveFolders, folderVars,
                   providerFailed, user_folder_id>>

\* The steps of a collection run in progress.
RunNext ==
    \/ pc = "folder" /\ FolderList(RunCall)
    \/ pc = "folder" /\ FolderListFails(RunCall)
    \/ pc = "folder" /\ FolderCreate(RunCall)
    \/ pc = "folder" /\ FolderCreateFails(RunCall)
    \/ FolderReturn
    \/ FolderRaise
    \/ ArtistsRequestFails
    \/ \E callOk \in BOOLEAN : ArtistsRequest(callOk)
    \/ TracksRequestFails
    \/ \E k \in 0..PageLimit : TracksPageMore(k)
    \/ \E k \in 0..PageLimit, callOk \in BOOLEAN : TracksPageLast(k, callOk)

\* ------------------------------------------------------ initial states
NoFile == [exists |-> FALSE, rows |-> <<>>]
EmptySession == [spotify_token |-> Absent, spotify_expires_in |-> Absent,
                 spotify_username |-> Absent, display_name |-> Absent,
                 custom_name |-> Absent]
NoRequest == [kind |-> "none", code |-> "-", exchange |-> "-", attempts |-> 0,
              ran |-> FALSE]

\* Nothing retrieved, written or uploaded yet in this run.
FreshLogs ==
    /\ saved = {}
    /\ fetchedLen = [s \in Slots |-> -1]
    /\ uploads = [s \in Slots |-> "none"]

IdleFolderCalls ==
    /\ fpc = [c \in Calls |-> "idle"]
    /\ fname = [c \in Calls |-> Absent]
    /\ fresult = [c \in Calls |-> EmptyHandle]
    /\ fcreated = [c \in Calls |-> FALSE]
    /\ listedAt = [c \in Calls |-> 0]
    /\ driveCalls = [c \in Calls |-> 0]

\* The session after a callback has exchanged its code and read the profile.
LoggedIn(label) == [spotify_token |-> "token", spotify_expires_in |-> "3600",
                    spotify_username |-> "user_id", display_name |-> "display",
                    custom_name |-> label]

\* ------------------------------------------------------- Flask routes
\* No request of the session is being handled.
RequestIdle == pc \in {"idle", "done", "aborted"}

Request(kind, code, exchange, attempts, ran) ==
    [kind |-> kind, code |-> code, exchange |-> exchange, attempts |-> attempts,
     ran |-> ran]

\* A request that runs no collection: the locals of the previous handler are
\* gone, and nothing is fetched, written or uploaded by this one.
NoCollection ==
    /\ pc' = "idle"
    /\ error' = "none"
    /\ providerFailed' = FALSE
    /\ widx' = 1
    /\ user_folder_id' = EmptyHandle
    /\ results' = <<>>
    /\ fetched' = 0
    /\ honest' = TRUE
    /\ saved' = {}
    /\ fetchedLen' = [s \in Slots |-> -1]
    /\ uploads' = [s \in Slots |-> "none"]
    /\ fpc' = [fpc EXCEPT ![RunCall] = "idle"]
    /\ fname' = [fname EXCEPT ![RunCall] = Absent]
    /\ fresult' = [fresult EXCEPT ![RunCall] = EmptyHandle]
    /\ fcreated' = [fcreated EXCEPT ![RunCall] = FALSE]
    /\ listedAt' = [listedAt EXCEPT ![RunCall] = 0]
    /\ driveCalls' = [driveCalls EXCEPT ![RunCall] = 0]
    /\ UNCHANGED <<providerVars, driveCfg, driveFolders, files>>

\* GET /
index ==
    /\ RequestIdle
    /\ sessionAtEntry' = session
    /\ lastRequest' = Request("index", "-", "-", 0, FALSE)
    /\ response' = "index_page"
    /\ NoCollection
    /\ UNCHANGED <<session, summaryCalls, exchanged>>

\* A login that does not clear the session.
SessionKept == session

\* session.clear()
SessionAfterClear == EmptySession

\* request.form.get("custom_name", "Unknown_User")
FormLabel(form) == IF form = Absent THEN "Unknown_User" ELSE form

\* POST /login
login(form) ==
    /\ RequestIdle
    /\ sessionAtEntry' = session
    /\ session' = [SessionAfterClear EXCEPT !.custom_name = FormLabel(form)]
    /\ lastRequest' = Request("login", "-", "-", 0, FALSE)
    /\ response' = "redirect_auth"
    /\ exchanged' = FALSE
    /\ NoCollection
    /\ UNCHANGED summaryCalls

\* A callback that does not test for the code.
CodeNeverMissing(code) == FALSE

\* callback: `if not code`
CodeMissing(code) == code = Absent

\* The class of the authorization code, as the provider sees it.
CodeClass(code) == IF code = Absent THEN "missing" ELSE code

\* GET /callback without a code: redirect(url_for("index"))
callbackNoCode(code) ==
    /\ RequestIdle
    /\ CodeMissing(code)
    /\ sessionAtEntry' = session
    /\ lastRequest' = Request("callback", CodeClass(code), "-", 0, FALSE)
    /\ response' = "redirect_index"
    /\ NoCollection
    /\ UNCHANGED <<session, summaryCalls, exchanged>>

\* GET /callback: requests.post(token_url) fails or resp.raise_for_status() raises
callbackExchangeRejected(code) ==
    /\ RequestIdle
    /\ ~CodeMissing(code)
    /\ sessionAtEntry' = session
    /\ lastRequest' = Request("callback", CodeClass(code), "rejected", 1, FALSE)
    /\ response' = "error"
    /\ NoCollection
    /\ UNCHANGED <<session, summaryCalls, exchanged>>

\* session["spotify_token"], session["spotify_expires_in"] = ...
SessionWithToken(s) == [s EXCEPT !.spotify_token = "token", !.spotify_expires_in = "3600"]

\* session["spotify_username"], ["display_name"], ["custom_name"] = ...
SessionWithProfile(s) ==
    [s EXCEPT !.spotify_username = "user_id", !.display_name = "display",
              !.custom_name = IF s.custom_name = Absent THEN "Unknown_User"
                              ELSE s.custom_name]

\* GET /callback: the exchange answers, sp.current_user() raises
callbackProfileFails(code) ==
    /\ RequestIdle
    /\ ~CodeMissing(code)
    /\ code = "good"
    /\ sessionAtEntry' = session
    /\ session' \in {SessionWithToken(session), session}
    /\ lastRequest' = Request("callback", CodeClass(code), "ok", 1, FALSE)
    /\ response' = "error"
    /\ exchanged' = TRUE
    /\ NoCollection
    /\ UNCHANGED summaryCalls

\* GET /callback: the exchange and the profile answer; save_all_user_data
\* starts and reaches its first remote call
callbackCollect(code) ==
    /\ RequestIdle
    /\ ~CodeMissing(code)
    /\ code = "good"
    /\ sessionAtEntry' = session
    /\ session' = SessionWithProfile(SessionWithToken(session))
    /\ lastRequest' = Request("callback", CodeClass(code), "ok", 1, TRUE)
    /\ response' = "pending"
    /\ exchanged' = TRUE
    /\ pc' = "folder"
    /\ error' = "none"
    /\ providerFailed' = FALSE
    /\ widx' = 1
    /\ user_folder_id' = EmptyHandle
    /\ results' = <<>>
    /\ fetched' = 0
    /\ honest' = TRUE
    /\ saved' = {}
    /\ fetchedLen' = [s \in Slots |-> -1]
    /\ uploads' = [s \in Slots |-> "none"]
    /\ get_or_create_user_folder(RunCall, session'.custom_name)
    /\ UNCHANGED <<providerVars, driveCfg, driveFolders, files, summaryCalls>>

\* summary: `if not spotify_token`
TokenMissing(token) == token = Absent

\* GET /summary without a token: redirect(url_for("index"))
summaryRedirect ==
    /\ RequestIdle
    /\ TokenMissing(session.spotify_token)
    /\ sessionAtEntry' = session
    /\ lastRequest' = Request("summary", "-", "-", 0, FALSE)
    /\ response' = "redirect_index"
    /\ summaryCalls' = 0
    /\ NoCollection
    /\ UNCHANGED <<session, exchanged>>

\* GET /summary with a token: top artists, then top tracks (limit=10); either
\* request may raise
summaryShow(outcome) ==
    /\ RequestIdle
    /\ ~TokenMissing(session.spotify_token)
    /\ sessionAtEntry' = session
    /\ lastRequest' = Request("summary", "-", "-", 0, FALSE)
    /\ response' = IF outcome = "ok" THEN "summary_page" ELSE "error"
    /\ summaryCalls' = IF outcome = "artists_fail" THEN 1 ELSE 2
    /\ NoCollection
    /\ UNCHANGED <<session, exchanged>>

\* --------------------------------------------------- specifications
Holdings(n) == [Windows -> 0..n]

\* Holdings of a new account: items in the short_term window only.
RecentOnly(n) == {[w \in Windows |-> IF w = 1 THEN m ELSE 0] : m \in 0..n}

\* The session of a browser that has not yet made a request.
Init ==
    /\ topArtists \in RecentOnly(MaxSessionItems)
    /\ topTracks \in RecentOnly(MaxSessionItems)
    /\ drive_service \in BOOLEAN
    /\ FOLDER_ID = "parent"
    /\ driveFolders = <<>>
    /\ listNewestFirst = FALSE
    /\ IdleFolderCalls
    /\ session = EmptySession
    /\ sessionAtEntry = EmptySession
    /\ lastRequest = NoRequest
    /\ response = "none"
    /\ summaryCalls = 0
    /\ exchanged = FALSE
    /\ pc = "idle"
    /\ error = "none"
    /\ providerFailed = FALSE
    /\ widx = 1
    /\ user_folder_id = EmptyHandle
    /\ results = <<>>
    /\ fetched = 0
    /\ honest = TRUE
    /\ files = [s \in Slots |-> NoFile]
    /\ FreshLogs

Next ==
    \/ index
    \/ \E form \in Labels \cup {Absent} : login(form)
    \/ \E code \in {Absent, "bad", "good"} :
          \/ callbackNoCode(code)
          \/ callbackExchangeRejected(code)
          \/ callbackProfileFails(code)
          \/ callbackCollect(code)
    \/ summaryRedirect
    \/ \E outcome \in {"ok", "artists_fail", "tracks_fail"} : summaryShow(outcome)
    \/ RunNext

Spec == Init /\ [][Next]_vars

\* One collection run: callback has just called save_all_user_data, which
\* has entered get_or_create_user_folder.
InitRun ==
    /\ topArtists \in Holdings(MaxArtists)
    /\ topTracks \in Holdings(MaxTracks)
    /\ drive_service \in BOOLEAN
    /\ FOLDER_ID = "parent"
    /\ driveFolders \in {<<>>, <<[name |-> "alice", parent |-> "parent"]>>}
    /\ (~drive_service => driveFolders = <<>>)
    /\ listNewestFirst = FALSE
    /\ fpc = [c \in Calls |-> IF c # RunCall THEN "idle"
                              ELSE IF drive_service THEN "list" ELSE "returned"]
    /\ fname = [c \in Calls |-> IF c = RunCall THEN "alice" ELSE Absent]
    /\ fresult = [c \in Calls |-> EmptyHandle]
    /\ fcreated = [c \in Calls |-> FALSE]
    /\ listedAt = [c \in Calls |-> 0]
    /\ driveCalls = [c \in Calls |-> 0]
    /\ session = LoggedIn("alice")
    /\ sessionAtEntry = [EmptySession EXCEPT !.custom_name = "alice"]
    /\ lastRequest = Request("callback", "good", "ok", 1, TRUE)
    /\ response = "pending"
    /\ summaryCalls = 0
    /\ exchanged = TRUE
    /\ pc = "folder"
    /\ error = "none"
    /\ providerFailed = FALSE
    /\ widx = 1
    /\ user_folder_id = EmptyHandle
    /\ results = <<>>
    /\ fetched = 0
    /\ honest = TRUE
    /\ files = [s \in Slots |-> NoFile]
    /\ FreshLogs

SpecRun == InitRun /\ [][RunNext]_vars

\* get_top_tracks(tr, 100) for one window tr, entered with results, fetched = [], 0
InitTracks ==
    /\ widx \in Windows
    /\ \E n \in 0..MaxTrackHoldings :
          topTracks = [w \in Windows |-> IF w = widx THEN n ELSE 0]
    /\ topArtists = [w \in Windows |-> 0]
    /\ drive_service = FALSE
    /\ FOLDER_ID = "parent"
    /\ driveFolders = <<>>
    /\ listNewestFirst = FALSE
    /\ fpc = [c \in Calls |-> IF c = RunCall THEN "returned" ELSE "idle"]
    /\ fname = [c \in Calls |-> IF c = RunCall THEN "alice" ELSE Absent]
    /\ fresult = [c \in Calls |-> EmptyHandle]
    /\ fcreated = [c \in Calls |-> FALSE]
    /\ listedAt = [c \in Calls |-> 0]
    /\ driveCalls = [c \in Calls |-> 0]
    /\ session = LoggedIn("alice")
    /\ sessionAtEntry = [EmptySession EXCEPT !.custom_name = "alice"]
    /\ lastRequest = Request("callback", "good", "ok", 1, TRUE)
    /\ response = "pending"
    /\ summaryCalls = 0
    /\ exchanged = TRUE
    /\ pc = "tracks"
    /\ error = "none"
    /\ providerFailed = FALSE
    /\ user_folder_id = EmptyHandle
    /\ results = <<>>
    /\ fetched = 0
    /\ honest = TRUE
    /\ files = [s \in Slots |-> NoFile]
    /\ FreshLogs

\* The loop of get_top_tracks and the rows built from its result; the
\* provider answers every request.
NextTracks ==
    \/ \E k \in 0..PageLimit : TracksPageMore(k)
    \/ \E k \in 0..PageLimit, callOk \in BOOLEAN : TracksPageLast(k, callOk)

SpecTracks == InitTracks /\ [][NextTracks]_vars /\ WF_vars(NextTracks)

\* Folders the store may hold before any call.
PreFolders == {[name |-> "alice", parent |-> p] : p \in {"parent", "elsewhere"}}

SeqsUpTo(S, n) == UNION {[1..m -> S] : m \in 0..n}

\* Concurrent collection runs, each at line 160 with its own label.
InitFolder ==
    /\ topArtists = [w \in Windows |-> 0]
    /\ topTracks = [w \in Windows |-> 0]
    /\ drive_service = TRUE
    /\ FOLDER_ID \in {"", "parent"}
    /\ driveFolders \in SeqsUpTo(PreFolders, MaxPreFolders)
    /\ listNewestFirst \in BOOLEAN
    /\ fpc = [c \in Calls |-> "list"]
    /\ fname \in [Calls -> FolderLabels]
    /\ fresult = [c \in Calls |-> EmptyHandle]
    /\ fcreated = [c \in Calls |-> FALSE]
    /\ listedAt = [c \in Calls |-> 0]
    /\ driveCalls = [c \in Calls |-> 0]
    /\ session = EmptySession
    /\ sessionAtEntry = EmptySession
    /\ lastRequest = NoRequest
    /\ response = "none"
    /\ summaryCalls = 0
    /\ exchanged = FALSE
    /\ pc = "idle"
    /\ error = "none"
    /\ providerFailed = FALSE
    /\ widx = 1
    /\ user_folder_id = EmptyHandle
    /\ results = <<>>
    /\ fetched = 0
    /\ honest = TRUE
    /\ files = [s \in Slots |-> NoFile]
    /\ FreshLogs

NextFolder ==
    \E c \in Calls :
        \/ FolderList(c)
        \/ FolderListFails(c)
        \/ FolderCreate(c)
        \/ FolderCreateFails(c)

SpecFolder == InitFolder /\ [][NextFolder]_vars

\* ------------------------------------------------------------- claims
TrackSlot(w) == <<w, "tracks">>
ArtistSlot(w) == <<w, "artists">>

\* The slot has been through its retrieval in the current run.
Retrieved(slot) == fetchedLen[slot] >= 0

\* Nothing of the current run has touched the slot.
Untouched(slot) ==
    /\ fetchedLen[slot] = -1
    /\ slot \notin saved
    /\ uploads[slot] = "none"

\* The rows a file holds when it was built from the first k items of the
\* provider's ranking: ranks 1..k, in the provider's order.
RankedRows(kind, w, k) == [i \in 1..k |-> [Rank |-> i, ID |-> ItemId(kind, w, i)]]

C1_Safe ==
    /\ Len(results) <= TotalLimit
    /\ pc = "tracks" => /\ fetched = Len(results)
                        /\ fetched < TotalLimit
                        /\ results = Page("tracks", widx, 0, fetched)
    /\ error = "none"
    /\ \A w \in Windows :
          Retrieved(TrackSlot(w)) =>
              LET k == fetchedLen[TrackSlot(w)] IN
              /\ k <= TotalLimit
              /\ k <= topTracks[w]
              /\ honest => k = Min(TotalLimit, topTracks[w])
              /\ k > 0 => /\ files[TrackSlot(w)].exists
                          /\ files[TrackSlot(w)].rows = RankedRows("tracks", w, k)

\* C1: for every window and every number N of tracks the provider holds,
\* get_top_tracks(window, 100) ends without error with at most 100 items,
\* exactly min(100, N) of them when every page was served in full, and the rows
\* built from them carry the ranks 1..k in retrieval order; a last page shorter
\* than the requested size changes none of this.
C1_TopTracksBoundedAndRanked == [](C1_Safe) /\ <>(pc # "tracks")

\* C1 witness: 70 tracks held; the second page (20 of the 50 asked for) is
\* short, the third is empty, and 70 rows are written.
C1_Witness ==
    /\ pc # "tracks"
    /\ honest
    /\ \E w \in Windows :
          /\ topTracks[w] = 70
          /\ fetchedLen[TrackSlot(w)] = 70
          /\ Len(files[TrackSlot(w)].rows) = 70

\* C2: the lookup-then-create is not atomic. Two runs with the same label
\* that both created a folder each listed before the other one created, the
\* create of neither was held back, and two folders with that name exist
\* side by side under the parent.
C2_DuplicateFoldersFromRace ==
    \A c1, c2 \in Calls :
        (c1 # c2 /\ fname[c1] = fname[c2] /\ fcreated[c1] /\ fcreated[c2]) =>
            /\ fresult[c1] # fresult[c2]
            /\ {fresult[c1], fresult[c2]} \subseteq MatchingIds(fname[c1])
            /\ listedAt[c1] < fresult[c2]
            /\ listedAt[c2] < fresult[c1]

\* C2 witness: the store was empty, two runs with one label interleaved, and
\* the store now holds two folders with that name.
C2_Witness ==
    /\ fname[1] = fname[2]
    /\ fcreated[1] /\ fcreated[2]
    /\ Len(driveFolders) = 2
    /\ Cardinality(MatchingIds(fname[1])) = 2

\* Folders matching `name` that were created after the store held `from`
\* folders and up to the moment it held `to`, other than folder `own`.
CreatedBetween(name, from, to, own) ==
    {i \in MatchingIds(name) : from < i /\ i <= to /\ i # own}

\* Call c2 listed after call c1 had returned, and no other caller created a
\* folder with that name from c1's lookup to c2's lookup.
InSequence(c1, c2) ==
    /\ c1 # c2
    /\ fname[c1] = fname[c2]
    /\ fpc[c1] = "returned"
    /\ fpc[c2] = "returned"
    /\ listedAt[c1] <= listedAt[c2]
    /\ fcreated[c1] => fresult[c1] <= listedAt[c2]
    /\ CreatedBetween(fname[c1], listedAt[c1], listedAt[c2],
                      IF fcreated[c1] THEN fresult[c1] ELSE EmptyHandle) = {}

\* C3: with an initialized client and no concurrent creation, two calls in
\* sequence with the same name and parent return the same handle, and the
\* second one creates nothing.
C3_FolderResolutionIdempotent ==
    \A c1, c2 \in Calls :
        InSequence(c1, c2) =>
            /\ fresult[c2] = fresult[c1]
            /\ fresult[c2] # EmptyHandle
            /\ ~fcreated[c2]
            /\ driveCalls[c2] = 1

\* C3 witness: the first call found no folder and created one, the second
\* call listed afterwards and returned it.
C3_Witness ==
    /\ InSequence(1, 2)
    /\ fcreated[1]
    /\ ~fcreated[2]
    /\ fresult[2] = fresult[1]

\* C4: without a remote-store client, get_or_create_user_folder and
\* upload_to_drive return the empty handle and no remote call is issued; the
\* run is stopped by nothing but a provider failure, and a completed run has
\* written a file for every non-empty retrieval of all three windows.
C4_LocalOnlyWithoutClient ==
    ~drive_service =>
        /\ driveCalls[RunCall] = 0
        /\ fresult[RunCall] = EmptyHandle
        /\ user_folder_id = EmptyHandle
        /\ driveFolders = <<>>
        /\ \A s \in Slots : uploads[s] \in {"none", "noop"}
        /\ \A s \in Slots : s \in saved => uploads[s] = "noop"
        /\ pc = "aborted" => providerFailed
        /\ pc \notin {"done", "aborted"} => ENABLED RunNext
        /\ pc = "done" =>
              \A s \in Slots :
                  /\ Retrieved(s)
                  /\ fetchedLen[s] > 0 =>
                        /\ s \in saved
                        /\ files[s].exists
                        /\ Len(files[s].rows) = fetchedLen[s]

\* C4 witness: no client, all six retrievals non-empty, the run completed
\* with six local files.
C4_Witness ==
    /\ ~drive_service
    /\ pc = "done"
    /\ saved = Slots
    /\ \A s \in Slots : files[s].exists

\* C5: with a client, a failing upload does not abort the run: the file of
\* that slot is on disk, the run is stopped by nothing but a provider failure
\* or the folder call, and a completed run has fetched every slot and has
\* written and tried to upload every non-empty one.
C5_UploadFailureNotFatal ==
    drive_service =>
        /\ error # "upload"
        /\ \A s \in Slots :
              uploads[s] = "failed" =>
                  /\ s \in saved
                  /\ files[s].exists
                  /\ pc = "aborted" => providerFailed
        /\ pc = "done" =>
              \A s \in Slots :
                  /\ Retrieved(s)
                  /\ fetchedLen[s] > 0 =>
                        /\ s \in saved
                        /\ files[s].exists
                        /\ uploads[s] \in {"ok", "failed"}

\* C5 witness: the first upload of the run failed and the run went on to
\* upload the last file.
C5_Witness ==
    /\ drive_service
    /\ pc = "done"
    /\ uploads[ArtistSlot(1)] = "failed"
    /\ uploads[TrackSlot(3)] = "ok"

\* C6: a failure of the folder lookup or create call at the start of a run
\* is caught at the call site and the run continues (it is not aborted by it).
C6_FolderFailureCaught ==
    (drive_service /\ fpc[RunCall] = "raised") => pc # "aborted"

\* The outcome classes of callback C7 is about.
CallbackWithoutCode == lastRequest.kind = "callback" /\ lastRequest.code = "missing"
CallbackRejected ==
    /\ lastRequest.kind = "callback"
    /\ lastRequest.code # "missing"
    /\ (lastRequest.code = "bad" \/ lastRequest.exchange = "rejected")

\* Such a callback left the session as it found it and started no run.
NothingStoredNothingRun ==
    /\ session = sessionAtEntry
    /\ ~lastRequest.ran
    /\ lastRequest.attempts <= 1
    /\ pc = "idle"
    /\ saved = {}
    /\ \A s \in Slots : Untouched(s)

\* C7 as stated: a callback with a missing or bad code, or with a rejected
\* exchange, ends as a hard failure, is not retried, stores no token and
\* starts no run.
C7_Original ==
    (CallbackWithoutCode \/ CallbackRejected) =>
        /\ response = "error"
        /\ NothingStoredNothingRun

\* C7 amended: a callback with a bad code or a rejected exchange ends as a
\* hard failure after one exchange attempt; a callback without a code is
\* answered with a redirect to the landing page and makes no exchange at
\* all; either one stores no token and starts no run.
C7_CallbackFailure ==
    /\ CallbackRejected =>
          /\ response = "error"
          /\ lastRequest.attempts = 1
          /\ NothingStoredNothingRun
    /\ CallbackWithoutCode =>
          /\ response = "redirect_index"
          /\ lastRequest.attempts = 0
          /\ NothingStoredNothingRun

\* C7 witness: a bad code was rejected in a session that holds the token of
\* an earlier callback; the request failed and the session is as before.
C7_Witness ==
    /\ CallbackRejected
    /\ lastRequest.code = "bad"
    /\ response = "error"
    /\ session.spotify_token = "token"

\* C8: a summary request of a session without a token is answered with a
\* redirect to the landing page and makes no provider call; the session holds
\* no token as long as no callback has completed its exchange since the last
\* login, and a login leaves nothing in the session but its label.
C8_SummaryNeedsToken ==
    /\ ~exchanged => session.spotify_token = Absent
    /\ (lastRequest.kind = "summary" /\ session.spotify_token = Absent) =>
          /\ response = "redirect_index"
          /\ summaryCalls = 0
    /\ lastRequest.kind = "login" =>
          /\ session.custom_name # Absent
          /\ session = [EmptySession EXCEPT !.custom_name = session.custom_name]

\* C8 witness: a callback completed (its run wrote a file), a login followed,
\* and the summary request after it was redirected.
C8_Witness ==
    /\ lastRequest.kind = "summary"
    /\ response = "redirect_index"
    /\ summaryCalls = 0
    /\ files[ArtistSlot(1)].exists
    /\ session.custom_name = "alice"

\* C9: in a run, a slot's file is written and its upload attempted if and
\* only if its retrieval returned at least one item; the file has one row per
\* retrieved item; an empty window leaves no file, no upload attempt and no
\* error.
C9_ExportIffNonEmpty ==
    /\ \A s \in Slots :
          /\ ~Retrieved(s) => Untouched(s) /\ ~files[s].exists
          /\ Retrieved(s) =>
                /\ s \in saved <=> fetchedLen[s] > 0
                /\ uploads[s] # "none" <=> fetchedLen[s] > 0
                /\ files[s].exists <=> fetchedLen[s] > 0
                /\ files[s].exists => Len(files[s].rows) = fetchedLen[s]
    /\ pc = "aborted" => (providerFailed \/ fpc[RunCall] = "raised")

\* C9 witness: a completed run whose long_term window was empty and whose
\* short_term window was not.
C9_Witness ==
    /\ pc = "done"
    /\ error = "none"
    /\ fetchedLen[ArtistSlot(3)] = 0
    /\ fetchedLen[TrackSlot(3)] = 0
    /\ ~files[ArtistSlot(3)].exists
    /\ ~files[TrackSlot(3)].exists
    /\ uploads[ArtistSlot(3)] = "none"
    /\ ArtistSlot(1) \in saved
    /\ TrackSlot(1) \in saved

\* The slots that come after the request that failed in window widx.
LaterSlots ==
    {s \in Slots : s[1] > widx \/ (s[1] = widx /\ ~Retrieved(s))}

\* C10: a provider failure on an artist or track request is not caught in
\* the run: the run and the callback request end in an error, no later slot
\* is fetched, written or uploaded, nothing more can happen in the run, and
\* the files written before the failure are there.
C10_ProviderFailureAborts ==
    providerFailed =>
        /\ pc = "aborted"
        /\ error = "provider"
        /\ response = "error"
        /\ ~ENABLED RunNext
        /\ LaterSlots # {}
        /\ \A s \in LaterSlots : Untouched(s) /\ ~files[s].exists
        /\ \A s \in Slots \ LaterSlots :
              /\ Retrieved(s)
              /\ fetchedLen[s] > 0 =>
                    /\ files[s].exists
                    /\ Len(files[s].rows) = fetchedLen[s]

\* C10 witness: the medium_term request failed after the short_term files
\* were written; they are still there and long_term was never fetched.
C10_Witness ==
    /\ providerFailed
    /\ pc = "aborted"
    /\ widx = 2
    /\ files[ArtistSlot(1)].exists
    /\ files[TrackSlot(1)].exists
    /\ Untouched(ArtistSlot(3))

====
